---- MODULE Spec2Model ----
(***************************************************************************)
(* A model of tarefas_cli.py: the QuestManager store (an in-memory value   *)
(* mirrored in a JSON file) and the command surface main().                *)
(*                                                                         *)
(* A Python str is the sequence of its code points, so that str.strip()    *)
(* and the JSON string escaping are computed for every character.  A value *)
(* json.load can return is a record [t, s, n, items]: t is the Python type *)
(* ("str", "int", "True", "False", "None", "list", "dict"), s the code     *)
(* points of a str, n the number of an int, items the items of a list or   *)
(* the members of a dict in insertion order; a member is a record of the   *)
(* same shape with t = "item", s the key and items = <<value>>.            *)
(* A JSON document is the sequence of its tokens; white space              *)
(* between tokens (which indent=4 adds) is not a token.  Numbers with a    *)
(* fraction or an exponent and the words NaN and Infinity have no token:   *)
(* documents that hold them are outside the model.                         *)
(***************************************************************************)
EXTENDS Integers, Sequences, FiniteSets, TLC

VARIABLES
    tasks,       \* self.tasks of the live QuestManager
    file,        \* the file at self.filename: [exists, content, read, write]
    call,        \* the last call made: [op, name, description, priority, status]
    outcome,     \* how the last call ended: "ok" or the error it raised
    result,      \* the value the last call returned
    before,      \* self.tasks when the last call started
    beforeFile,  \* the file when the last call started
    history,     \* the calls made on the live store since it was constructed: "new"
                 \* (none), "adds" (add_task calls that returned), "calls" (add_task,
                 \* complete_task, remove_task calls), "mixed" (others too);
                 \* "reopened" is a store constructed after "adds"
    pc,          \* main(): the position of the running invocation
    args,        \* main(): the argparse namespace of the running invocation
    constructed, \* main(): QuestManager() has been constructed in this invocation
    loaded       \* main(): load_tasks() has read the file in this invocation

vars == <<tasks, file, call, outcome, result, before, beforeFile, history,
          pc, args, constructed, loaded>>

cliVars == <<pc, args, constructed, loaded>>

(***************************************************************************)
(* Bounds of the model.                                                    *)
(***************************************************************************)
MaxTasks == 2

(***************************************************************************)
(* Python strings and values.                                              *)
(***************************************************************************)
\* An argument that is None instead of a str (no str holds the code point -1).
None == <<-1>>

alta == <<97, 108, 116, 97>>  \* "alta"
media == <<109, 233, 100, 105, 97>>  \* "média"
baixa == <<98, 97, 105, 120, 97>>  \* "baixa"
statusPending == <<112, 101, 110, 100, 105, 110, 103>>  \* "pending"
statusDone == <<100, 111, 110, 101>>  \* "done"

keyName == <<110, 97, 109, 101>>  \* "name"
keyDescription == <<100, 101, 115, 99, 114, 105, 112, 116, 105, 111, 110>>  \* "description"
keyPriority == <<112, 114, 105, 111, 114, 105, 116, 121>>  \* "priority"
keyDone == <<100, 111, 110, 101>>  \* "done"

ValidPriorities == {alta, media, baixa}

\* The element of a set of one element.  Only({F(v) : v \in {x}}) is F(x)
\* with x evaluated once and then named v, as an assignment to a local
\* variable does.
Only(S) == CHOOSE y \in S : TRUE

\* bool(s) of an argument that is a str or None
Truthy(s) == s # None /\ s # <<>>

\* The code points c with chr(c).isspace(), which str.strip() removes.
Whitespace ==
    (9..13) \cup (28..32) \cup {133, 160, 5760} \cup (8192..8202)
        \cup {8232, 8233, 8239, 8287, 12288}

RECURSIVE lstrip(_)
lstrip(s) ==
    IF s = <<>> THEN <<>>
    ELSE IF Head(s) \in Whitespace THEN lstrip(Tail(s)) ELSE s

RECURSIVE rstrip(_)
rstrip(s) ==
    IF s = <<>> THEN <<>>
    ELSE IF s[Len(s)] \in Whitespace THEN rstrip(SubSeq(s, 1, Len(s) - 1)) ELSE s

strip(s) == rstrip(lstrip(s))

Str(s) == [t |-> "str", s |-> s, n |-> 0, items |-> <<>>]
IntValue(n) == [t |-> "int", s |-> <<>>, n |-> n, items |-> <<>>]
True == [t |-> "True", s |-> <<>>, n |-> 0, items |-> <<>>]
False == [t |-> "False", s |-> <<>>, n |-> 0, items |-> <<>>]
NoneValue == [t |-> "None", s |-> <<>>, n |-> 0, items |-> <<>>]
List(items) == [t |-> "list", s |-> <<>>, n |-> 0, items |-> items]
Dict(members) == [t |-> "dict", s |-> <<>>, n |-> 0, items |-> members]

\* One member of a dict: key: value
Member(key, value) == [t |-> "item", s |-> key, n |-> 0, items |-> <<value>>]

\* bool(x) of a value
Truth(x) ==
    CASE x.t = "True" -> TRUE
      [] x.t \in {"False", "None"} -> FALSE
      [] x.t = "int" -> x.n # 0
      [] x.t = "str" -> x.s # <<>>
      [] OTHER -> x.items # <<>>

\* x == s for a value x and a str s
EqualsStr(x, s) == x.t = "str" /\ x.s = s

\* What iterating x yields (a list its items, a dict its keys, a str its
\* characters); the other types are not iterable.
Iterable(x) == x.t \in {"list", "dict", "str"}

Items(x) ==
    CASE x.t = "list" -> x.items
      [] x.t = "dict" -> [i \in 1..Len(x.items) |-> Str(x.items[i].s)]
      [] x.t = "str" -> [i \in 1..Len(x.s) |-> Str(<<x.s[i]>>)]
      [] OTHER -> <<>>

HasKey(members, key) == \E i \in 1..Len(members) : members[i].s = key

KeyIndex(members, key) == CHOOSE i \in 1..Len(members) : members[i].s = key

\* d[key] = value on the members of a dict: a key it has keeps its place.
SetItem(members, key, value) ==
    IF HasKey(members, key)
    THEN [members EXCEPT ![KeyIndex(members, key)] = Member(key, value)]
    ELSE Append(members, Member(key, value))

\* x[key] for a str key: [err, val]; err is "" when a value came back.
Subscript(x, key) ==
    IF x.t # "dict" THEN [err |-> "TypeError", val |-> NoneValue]
    ELSE IF ~HasKey(x.items, key) THEN [err |-> "KeyError", val |-> NoneValue]
    ELSE [err |-> "", val |-> x.items[KeyIndex(x.items, key)].items[1]]

(***************************************************************************)
(* json.dump / json.load (lines 113 and 119).  Tokens are records [k, v]:  *)
(* k is the punctuation mark or the word true, false, null itself, "str"   *)
(* with v the characters between the quotes (escapes included), "int" with *)
(* v = <<n>>, "bad" for text that is no JSON token, or "undecodable" for   *)
(* bytes that are no text in the encoding of open().                       *)
(***************************************************************************)
Punct(mark) == [k |-> mark, v |-> <<>>]
StrTok(escaped) == [k |-> "str", v |-> escaped]
IntTok(n) == [k |-> "int", v |-> <<n>>]

\* The character of the hexadecimal digit n, in lower case as json.dump writes.
HexDigit(n) == IF n < 10 THEN 48 + n ELSE 87 + n

\* The value of the hexadecimal digit c, -1 when c is none.
HexValue(c) ==
    IF c \in 48..57 THEN c - 48
    ELSE IF c \in 65..70 THEN c - 55
    ELSE IF c \in 97..102 THEN c - 87
    ELSE -1

\* \uXXXX for n < 65536
EscapeUnit(n) ==
    <<92, 117, HexDigit(n \div 4096), HexDigit((n \div 256) % 16),
      HexDigit((n \div 16) % 16), HexDigit(n % 16)>>

\* One character of a str as json.dump writes it with ensure_ascii=True.
EscapeChar(c) ==
    CASE c = 34 -> <<92, 34>>
      [] c = 92 -> <<92, 92>>
      [] c = 10 -> <<92, 110>>
      [] c = 13 -> <<92, 114>>
      [] c = 9 -> <<92, 116>>
      [] c = 8 -> <<92, 98>>
      [] c = 12 -> <<92, 102>>
      [] c \in 32..126 /\ c \notin {34, 92} -> <<c>>
      [] c > 65535 -> EscapeUnit(55296 + ((c - 65536) \div 1024))
                          \o EscapeUnit(56320 + ((c - 65536) % 1024))
      [] OTHER -> EscapeUnit(c)

RECURSIVE Escape(_)
Escape(s) == IF s = <<>> THEN <<>> ELSE EscapeChar(Head(s)) \o Escape(Tail(s))

\* The four hexadecimal digits of e from position i: their value, -1 when
\* they are not four hexadecimal digits.
Hex4(e, i) ==
    IF i + 3 > Len(e) THEN -1
    ELSE IF \E j \in i..(i + 3) : HexValue(e[j]) < 0 THEN -1
    ELSE HexValue(e[i]) * 4096 + HexValue(e[i + 1]) * 256
             + HexValue(e[i + 2]) * 16 + HexValue(e[i + 3])

\* The character a one-letter escape stands for, -1 when it is none.
SimpleEscape(c) ==
    CASE c = 34 -> 34
      [] c = 92 -> 92
      [] c = 47 -> 47
      [] c = 98 -> 8
      [] c = 102 -> 12
      [] c = 110 -> 10
      [] c = 114 -> 13
      [] c = 116 -> 9
      [] OTHER -> -1

\* The text between the quotes of a JSON string decoded as json.load does;
\* ok is FALSE on a control character, a quote or a bad escape.
RECURSIVE Unescape(_)
Unescape(e) ==
    LET unit == Hex4(e, 3)
        low == IF Len(e) >= 8 /\ e[7] = 92 /\ e[8] = 117 THEN Hex4(e, 9) ELSE -1
        paired == unit \in 55296..56319 /\ low \in 56320..57343
        char == IF paired THEN 65536 + (unit - 55296) * 1024 + (low - 56320) ELSE unit
        \* the character c before the decoded rest
        prepend(c, rest) == IF rest.ok THEN [ok |-> TRUE, val |-> <<c>> \o rest.val] ELSE rest
        plain(rest) == prepend(Head(e), rest)
        simple(rest) == prepend(SimpleEscape(e[2]), rest)
        unicode(rest) == prepend(char, rest)
    IN  IF e = <<>> THEN [ok |-> TRUE, val |-> <<>>]
        ELSE IF Head(e) < 32 \/ Head(e) = 34 THEN [ok |-> FALSE, val |-> <<>>]
        ELSE IF Head(e) # 92 THEN Only({plain(v) : v \in {Unescape(Tail(e))}})
        ELSE IF Len(e) < 2 THEN [ok |-> FALSE, val |-> <<>>]
        ELSE IF SimpleEscape(e[2]) >= 0
             THEN Only({simple(v) : v \in {Unescape(SubSeq(e, 3, Len(e)))}})
        ELSE IF e[2] = 117 /\ unit >= 0
             THEN Only({unicode(v) :
                           v \in {Unescape(SubSeq(e, IF paired THEN 13 ELSE 7, Len(e)))}})
        ELSE [ok |-> FALSE, val |-> <<>>]

\* DumpStr without the escaping.
DumpStr_raw(s) == StrTok(s)

\* One str as json.dump writes it.
DumpStr(s) == StrTok(Escape(s))

\* json.dump of a value
RECURSIVE DumpValue(_)
RECURSIVE DumpItems(_)
RECURSIVE DumpMembers(_)

DumpValue(x) ==
    CASE x.t = "str" -> <<DumpStr(x.s)>>
      [] x.t = "int" -> <<IntTok(x.n)>>
      [] x.t = "True" -> <<Punct("true")>>
      [] x.t = "False" -> <<Punct("false")>>
      [] x.t = "None" -> <<Punct("null")>>
      [] x.t = "list" -> <<Punct("[")>> \o DumpItems(x.items) \o <<Punct("]")>>
      [] x.t = "dict" -> <<Punct("{")>> \o DumpMembers(x.items) \o <<Punct("}")>>

DumpItems(items) ==
    IF items = <<>> THEN <<>>
    ELSE DumpValue(Head(items))
         \o (IF Tail(items) = <<>> THEN <<>>
             ELSE <<Punct(",")>> \o DumpItems(Tail(items)))

DumpMembers(members) ==
    IF members = <<>> THEN <<>>
    ELSE <<DumpStr(Head(members).s), Punct(":")>> \o DumpValue(Head(members).items[1])
         \o (IF Tail(members) = <<>> THEN <<>>
             ELSE <<Punct(",")>> \o DumpMembers(Tail(members)))

\* json.dump(self.tasks, f, indent=4)
Dump(x) == DumpValue(x)

\* json.load raising JSONDecodeError
DecodeError == [ok |-> FALSE, err |-> "JSONDecodeError", val |-> NoneValue, next |-> 0]

Decoded(x, next) == [ok |-> TRUE, err |-> "", val |-> x, next |-> next]

\* The JSON value that starts at token i; next is the token after it.
RECURSIVE ParseValue(_, _)
RECURSIVE ParseItems(_, _, _)
RECURSIVE ParseMembers(_, _, _)

ParseValue(toks, i) ==
    IF i > Len(toks) THEN DecodeError
    ELSE
        LET tok == toks[i]
            closes(mark) == i + 1 <= Len(toks) /\ toks[i + 1].k = mark
            string(s) == IF s.ok THEN Decoded(Str(s.val), i + 1) ELSE DecodeError
        IN  CASE tok.k = "str" -> Only({string(v) : v \in {Unescape(tok.v)}})
              [] tok.k = "int" -> Decoded(IntValue(tok.v[1]), i + 1)
              [] tok.k = "true" -> Decoded(True, i + 1)
              [] tok.k = "false" -> Decoded(False, i + 1)
              [] tok.k = "null" -> Decoded(NoneValue, i + 1)
              [] tok.k = "[" ->
                     IF closes("]") THEN Decoded(List(<<>>), i + 2)
                     ELSE ParseItems(toks, i + 1, <<>>)
              [] tok.k = "{" ->
                     IF closes("}") THEN Decoded(Dict(<<>>), i + 2)
                     ELSE ParseMembers(toks, i + 1, <<>>)
              [] OTHER -> DecodeError

\* The items of an array from token i on, after the items acc.
ParseItems(toks, i, acc) ==
    LET after(item) ==
            IF ~item.ok \/ item.next > Len(toks) THEN DecodeError
            ELSE IF toks[item.next].k = ","
                 THEN ParseItems(toks, item.next + 1, Append(acc, item.val))
            ELSE IF toks[item.next].k = "]"
                 THEN Decoded(List(Append(acc, item.val)), item.next + 1)
            ELSE DecodeError
    IN  Only({after(v) : v \in {ParseValue(toks, i)}})

\* The members of an object from token i on, after the members acc: a key
\* that comes again replaces the value and keeps the first place.
ParseMembers(toks, i, acc) ==
    LET after(key, member) ==
            IF ~member.ok \/ member.next > Len(toks) THEN DecodeError
            ELSE IF toks[member.next].k = ","
                 THEN ParseMembers(toks, member.next + 1, SetItem(acc, key.val, member.val))
            ELSE IF toks[member.next].k = "}"
                 THEN Decoded(Dict(SetItem(acc, key.val, member.val)), member.next + 1)
            ELSE DecodeError
        value(key) ==
            LET then(member) == after(key, member)
            IN  IF ~key.ok THEN DecodeError
                ELSE Only({then(v) : v \in {ParseValue(toks, i + 2)}})
    IN  IF i + 1 > Len(toks) \/ toks[i].k # "str" \/ toks[i + 1].k # ":" THEN DecodeError
        ELSE Only({value(v) : v \in {Unescape(toks[i].v)}})

\* json.load(f): one value and nothing after it.
Parse(toks) ==
    LET whole(doc) == IF doc.ok /\ doc.next = Len(toks) + 1 THEN doc ELSE DecodeError
    IN  Only({whole(v) : v \in {ParseValue(toks, 1)}})

\* What is at self.filename: exists is os.path.exists(self.filename),
\* content the tokens of the text, read the OSError open(self.filename, "r")
\* raises and write the one open(self.filename, "w") raises ("" when the
\* file opens).
File(exists, content, read, write) ==
    [exists |-> exists, content |-> content, read |-> read, write |-> write]

\* Nothing at the path, in a directory where a file can be created.
NoFile == File(FALSE, <<>>, "", "")

\* The file f after json.dump(ts, f, indent=4) into it.
Written(f, ts) == [f EXCEPT !.exists = TRUE, !.content = Dump(ts)]

\* QuestManager.save_tasks of a store that holds ts: [err, file].  open
\* raises before anything is written; json.dump writes every value
\* json.load returns.
save_tasks(ts, f) ==
    IF f.write # "" THEN [err |-> f.write, file |-> f]
    ELSE [err |-> "", file |-> Written(f, ts)]

\* The text holds bytes the encoding of open() cannot decode.
Undecodable(content) == \E i \in 1..Len(content) : content[i].k = "undecodable"

\* QuestManager.load_tasks on a store that holds ts: self.tasks = json.load(f)
\* when the file exists.  json.load reads the whole text before it parses.
load_tasks(ts, f) ==
    LET bound(doc) == [ok |-> doc.ok, err |-> doc.err, val |-> IF doc.ok THEN doc.val ELSE ts]
    IN  IF ~f.exists THEN [ok |-> TRUE, err |-> "", val |-> ts]
        ELSE IF f.read # "" THEN [ok |-> FALSE, err |-> f.read, val |-> ts]
        ELSE IF Undecodable(f.content)
             THEN [ok |-> FALSE, err |-> "UnicodeDecodeError", val |-> ts]
        ELSE Only({bound(v) : v \in {Parse(f.content)}})

\* QuestManager.__init__: self.tasks = [] and load_tasks().
construct(f) == load_tasks(List(<<>>), f)

(***************************************************************************)
(* QuestManager.  Each method is an operator from the store's state (the   *)
(* value ts of self.tasks and the file f) and the arguments to the state   *)
(* it leaves, the way it ended and the value it returned.  The ValueErrors *)
(* are named by what they report: "InvalidInput" (lines 22, 28, 77, 87),   *)
(* "DuplicateName" (line 25), "NotFound" (lines 58, 69); the errors Python *)
(* raises by itself keep their class name.                                 *)
(***************************************************************************)
Ended(ts, f, how, returned) ==
    [tasks |-> ts, file |-> f, outcome |-> how, result |-> returned]

\* The first item of items, from position i on, at which a scan for
\* task[key] == s stops: [err, at].  err is the error task[key] raised, at
\* the position of the item that is equal (0 when the scan reached the end).
RECURSIVE Scan(_, _, _, _)
Scan(items, key, s, i) ==
    LET next(got) ==
            IF got.err # "" THEN [err |-> got.err, at |-> 0]
            ELSE IF EqualsStr(got.val, s) THEN [err |-> "", at |-> i]
            ELSE Scan(items, key, s, i + 1)
    IN  IF i > Len(items) THEN [err |-> "", at |-> 0]
        ELSE Only({next(v) : v \in {Subscript(items[i], key)}})

\* The error the first failing task[key] raises over all items, "" when none.
RECURSIVE FirstError(_, _, _)
FirstError(items, key, i) ==
    LET next(got) == IF got.err # "" THEN got.err ELSE FirstError(items, key, i + 1)
    IN  IF i > Len(items) THEN ""
        ELSE Only({next(v) : v \in {Subscript(items[i], key)}})

\* self.tasks = ts and then save_tasks(): the call ends as how when the
\* file was written and with the error of open() when it was not, self.tasks
\* being ts already.
Saved(ts, f, how) ==
    LET closed(saved) ==
            IF saved.err # "" THEN Ended(ts, f, saved.err, NoneValue)
            ELSE Ended(ts, saved.file, how, NoneValue)
    IN  Only({closed(v) : v \in {save_tasks(ts, f)}})

\* The scan of line 24 stops at the first task whose name is equal, and
\* raises what task["name"] raises before it; self.tasks.append raises on a
\* dict or a str.
add_task(ts, f, name, description, priority) ==
    LET task == Dict(<<Member(keyName, Str(name)), Member(keyDescription, Str(description)),
                       Member(keyPriority, Str(priority)), Member(keyDone, False)>>)
        after(scan) ==
            IF scan.err # "" THEN Ended(ts, f, scan.err, NoneValue)
            ELSE IF scan.at # 0 THEN Ended(ts, f, "DuplicateName", NoneValue)
            ELSE IF priority \notin ValidPriorities THEN Ended(ts, f, "InvalidInput", NoneValue)
            ELSE IF ts.t # "list" THEN Ended(ts, f, "AttributeError", NoneValue)
            ELSE Saved(List(Append(ts.items, task)), f, "ok")
    IN  IF strip(name) = <<>> THEN Ended(ts, f, "InvalidInput", NoneValue)
        ELSE IF ~Iterable(ts) THEN Ended(ts, f, "TypeError", NoneValue)
        ELSE Only({after(v) : v \in {Scan(Items(ts), keyName, name, 1)}})

list_tasks(ts, f) == Ended(ts, f, "ok", ts)

\* priority_order[p] for a str p that is a key of priority_order
priority_order(p) ==
    CASE p = alta -> 1
      [] p = media -> 2
      [] p = baixa -> 3

\* The sort key of a task whose key was computed without error.
KeyOf(task) == priority_order(Subscript(task, keyPriority).val.s)

\* The error the key function raises on a task, "" when it returns:
\* task["priority"] may fail, a list or a dict cannot be hashed, and any
\* other value that is no key of priority_order is a KeyError.
KeyFailure(task) ==
    LET hashed(got) ==
            IF got.err # "" THEN got.err
            ELSE IF got.val.t \in {"list", "dict"} THEN "TypeError"
            ELSE IF got.val.t # "str" \/ got.val.s \notin ValidPriorities THEN "KeyError"
            ELSE ""
    IN  Only({hashed(v) : v \in {Subscript(task, keyPriority)}})

RECURSIVE FirstKeyError(_, _)
FirstKeyError(items, i) ==
    LET next(failure) == IF failure # "" THEN failure ELSE FirstKeyError(items, i + 1)
    IN  IF i > Len(items) THEN ""
        ELSE Only({next(v) : v \in {KeyFailure(items[i])}})

\* x put into a list sorted by key, after every item whose key is not greater.
RECURSIVE InsertByKey(_, _)
InsertByKey(sorted, x) ==
    IF sorted = <<>> THEN <<x>>
    ELSE IF KeyOf(Head(sorted)) <= KeyOf(x)
         THEN <<Head(sorted)>> \o InsertByKey(Tail(sorted), x)
         ELSE <<x>> \o sorted

\* sorted(items, key=...): a stable sort.
RECURSIVE SortedByKey(_)
SortedByKey(items) ==
    LET last(sorted) == InsertByKey(sorted, items[Len(items)])
    IN  IF items = <<>> THEN <<>>
        ELSE Only({last(v) : v \in {SortedByKey(SubSeq(items, 1, Len(items) - 1))}})

list_tasks_by_priority(ts, f) ==
    LET keyed(failure) ==
            IF failure # "" THEN Ended(ts, f, failure, NoneValue)
            ELSE Ended(ts, f, "ok", List(SortedByKey(Items(ts))))
    IN  IF ~Iterable(ts) THEN Ended(ts, f, "TypeError", NoneValue)
        ELSE Only({keyed(v) : v \in {FirstKeyError(Items(ts), 1)}})

\* A task whose name is equal is a dict, held by a list: the items of a
\* dict or a str are strs, on which task["name"] raises.
complete_task(ts, f, name) ==
    LET marked(at) ==
            List([ts.items EXCEPT ![at] = Dict(SetItem(ts.items[at].items, keyDone, True))])
        after(scan) ==
            IF scan.err # "" THEN Ended(ts, f, scan.err, NoneValue)
            ELSE IF scan.at = 0 THEN Ended(ts, f, "NotFound", NoneValue)
            ELSE Saved(marked(scan.at), f, "ok")
    IN  IF ~Iterable(ts) THEN Ended(ts, f, "TypeError", NoneValue)
        ELSE Only({after(v) : v \in {Scan(Items(ts), keyName, name, 1)}})

\* len(self.tasks) raises on a value without a length; the comprehension
\* builds a list, whatever self.tasks was, and self.tasks is bound to it
\* before the lengths are compared.
remove_task(ts, f, name) ==
    LET differs(task) == ~EqualsStr(Subscript(task, keyName).val, name)
        compared(kept) ==
            IF Len(kept.items) < Len(Items(ts)) THEN Saved(kept, f, "ok")
            ELSE Ended(kept, f, "NotFound", NoneValue)
        built(failure) ==
            IF failure # "" THEN Ended(ts, f, failure, NoneValue)
            ELSE Only({compared(v) : v \in {List(SelectSeq(Items(ts), differs))}})
    IN  IF ~Iterable(ts) THEN Ended(ts, f, "TypeError", NoneValue)
        ELSE Only({built(v) : v \in {FirstError(Items(ts), keyName, 1)}})

\* _filter_by_priority on a value: [err, val]
filter_by_priority(ts, priority) ==
    LET has(task) == EqualsStr(Subscript(task, keyPriority).val, priority)
        built(failure) ==
            IF failure # "" THEN [err |-> failure, val |-> NoneValue]
            ELSE [err |-> "", val |-> List(SelectSeq(Items(ts), has))]
    IN  IF priority \notin ValidPriorities THEN [err |-> "InvalidInput", val |-> NoneValue]
        ELSE IF ~Iterable(ts) THEN [err |-> "TypeError", val |-> NoneValue]
        ELSE Only({built(v) : v \in {FirstError(Items(ts), keyPriority, 1)}})

\* _filter_by_status on a value: [err, val]
filter_by_status(ts, status) ==
    LET closed(task) == Truth(Subscript(task, keyDone).val)
        open(task) == ~closed(task)
        built(failure) ==
            IF failure # "" THEN [err |-> failure, val |-> NoneValue]
            ELSE IF status = statusPending
                 THEN [err |-> "", val |-> List(SelectSeq(Items(ts), open))]
            ELSE [err |-> "", val |-> List(SelectSeq(Items(ts), closed))]
    IN  IF status \notin {statusPending, statusDone}
        THEN [err |-> "InvalidInput", val |-> NoneValue]
        ELSE IF ~Iterable(ts) THEN [err |-> "TypeError", val |-> NoneValue]
        ELSE Only({built(v) : v \in {FirstError(Items(ts), keyDone, 1)}})

list_filtered_tasks(ts, f, status, priority) ==
    LET second(byPriority) ==
            IF byPriority.err # "" THEN Ended(ts, f, byPriority.err, NoneValue)
            ELSE Ended(ts, f, "ok", byPriority.val)
        first(byStatus) ==
            IF byStatus.err # "" THEN Ended(ts, f, byStatus.err, NoneValue)
            ELSE IF Truthy(priority)
                 THEN Only({second(v) : v \in {filter_by_priority(byStatus.val, priority)}})
            ELSE Ended(ts, f, "ok", byStatus.val)
    IN  IF Truthy(status) THEN Only({first(v) : v \in {filter_by_status(ts, status)}})
        ELSE first([err |-> "", val |-> ts])

(***************************************************************************)
(* The inputs the model draws from.                                        *)
(***************************************************************************)
Task(name, description, priority, isDone) ==
    Dict(<<Member(keyName, Str(name)), Member(keyDescription, Str(description)),
           Member(keyPriority, Str(priority)), Member(keyDone, IF isDone THEN True ELSE False)>>)

Alta == <<65, 108, 116, 97>>  \* "Alta"

\* Names given to the store: empty, blank (a space, a carriage return and a
\* no-break space), and two that differ in case only.
Names == {<<>>, <<32, 13, 160>>, <<97>>, <<65>>}

\* The description given to add_task: d"
Descriptions == {<<100, 34>>}

\* Priorities given to add_task: two of the three and one that is none.
Priorities == {alta, media, Alta}

FilterStatuses == {None, <<>>, statusPending, statusDone, <<120>>}

FilterPriorities == {None, <<>>, alta, Alta}

\* Task lists found in the file when the store is constructed: none, the
\* four quests [baixa, alta, média, alta], one name twice, one priority that
\* is none of the three.
InitialCollections ==
    { List(<<>>),
      List(<< Task(<<113, 49>>, <<100>>, baixa, FALSE),
              Task(<<113, 50>>, <<92, 34>>, alta, TRUE),
              Task(<<113, 233>>, <<>>, media, FALSE),
              Task(<<113, 52>>, <<100>>, alta, FALSE) >>),
      List(<< Task(<<97>>, <<100>>, alta, FALSE),
              Task(<<97>>, <<>>, baixa, FALSE) >>),
      List(<< Task(<<97>>, <<100>>, Alta, FALSE) >>) }

\* Other JSON documents found in the file: {}, 5, [{}], [{"name": "a"}] and
\* [{"name": 1, "description": null, "priority": ["alta"], "done": 1, "x": "y"}].
OtherDocuments ==
    { Dict(<<>>),
      IntValue(5),
      List(<< Dict(<<>>) >>),
      List(<< Dict(<<Member(keyName, Str(<<97>>))>>) >>),
      List(<< Dict(<<Member(keyName, IntValue(1)), Member(keyDescription, NoneValue),
                     Member(keyPriority, List(<<Str(alta)>>)), Member(keyDone, IntValue(1)),
                     Member(<<120>>, Str(<<121>>))>>) >>) }

\* Nothing at the path and no directory to create a file in.
MissingDirectory == File(FALSE, <<>>, "", "FileNotFoundError")

\* A file of one quest that may be read and not written.
ReadOnlyFile ==
    File(TRUE, Dump(List(<< Task(<<113, 49>>, <<100>>, baixa, FALSE) >>)), "", "PermissionError")

InitialFiles ==
    {NoFile, MissingDirectory, ReadOnlyFile}
        \cup {Written(NoFile, c) : c \in InitialCollections \cup OtherDocuments}

\* A file cut short: not a JSON document.
CorruptFile == File(TRUE, <<Punct("["), Punct("{")>>, "", "")

\* A file of bytes that are no text.
BinaryFile == File(TRUE, <<[k |-> "undecodable", v |-> <<>>]>>, "", "")

\* A file that may not be read.
UnreadableFile == File(TRUE, Dump(List(<<>>)), "PermissionError", "")

\* A directory at the path.
Directory == File(TRUE, <<>>, "IsADirectoryError", "IsADirectoryError")

\* What the command surface may find at the path and cannot load.
UnloadableFiles == {CorruptFile, BinaryFile, UnreadableFile, Directory}

NoCall == [op |-> "none", name |-> None, description |-> None,
           priority |-> None, status |-> None]

Call(op, name, description, priority, status) ==
    [op |-> op, name |-> name, description |-> description,
     priority |-> priority, status |-> status]

NoArgs == [action |-> "", name |-> None, description |-> None, priority |-> None,
           filter_status |-> None, filter_priority |-> None]

\* The names of the tasks of ts that are strs.
StrNames(ts) ==
    {Subscript(Items(ts)[i], keyName).val.s :
        i \in {j \in 1..Len(Items(ts)) : Subscript(Items(ts)[j], keyName).val.t = "str"}}

(***************************************************************************)
(* The store driven through its methods: one QuestManager, constructed on  *)
(* the file that is there, and any sequence of calls on it.                *)
(***************************************************************************)
Init ==
    /\ file \in InitialFiles
    /\ \E got \in {construct(file)} : got.ok /\ tasks = got.val
    /\ call = Call("construct", None, None, None, None)
    /\ outcome = "ok"
    /\ result = NoneValue
    /\ before = List(<<>>)
    /\ beforeFile = file
    /\ history = "new"
    /\ pc = "store"
    /\ args = NoArgs
    /\ constructed = TRUE
    /\ loaded = file.exists

\* The call c ended as r.
Returns(c, r) ==
    /\ tasks' = r.tasks
    /\ file' = r.file
    /\ outcome' = r.outcome
    /\ result' = r.result
    /\ call' = c
    /\ before' = tasks
    /\ beforeFile' = file

AddTask ==
    /\ pc = "store"
    /\ Len(Items(tasks)) < MaxTasks
    /\ \E name \in Names, description \in Descriptions, priority \in Priorities :
           \E r \in {add_task(tasks, file, name, description, priority)} :
               /\ Returns(Call("add", name, description, priority, None), r)
               /\ history' = IF r.outcome = "ok" /\ history \in {"new", "reopened", "adds"}
                             THEN "adds"
                             ELSE IF history = "mixed" THEN "mixed" ELSE "calls"
    /\ UNCHANGED cliVars

ListTasks ==
    /\ pc = "store"
    /\ \E r \in {list_tasks(tasks, file)} : Returns(Call("list", None, None, None, None), r)
    /\ history' = "mixed"
    /\ UNCHANGED cliVars

ListTasksByPriority ==
    /\ pc = "store"
    /\ \E r \in {list_tasks_by_priority(tasks, file)} :
           Returns(Call("by_priority", None, None, None, None), r)
    /\ history' = "mixed"
    /\ UNCHANGED cliVars

CompleteTask ==
    /\ pc = "store"
    /\ \E name \in Names \cup StrNames(tasks) :
           \E r \in {complete_task(tasks, file, name)} :
               Returns(Call("complete", name, None, None, None), r)
    /\ history' = IF history = "mixed" THEN "mixed" ELSE "calls"
    /\ UNCHANGED cliVars

RemoveTask ==
    /\ pc = "store"
    /\ \E name \in Names \cup StrNames(tasks) :
           \E r \in {remove_task(tasks, file, name)} :
               Returns(Call("remove", name, None, None, None), r)
    /\ history' = IF history = "mixed" THEN "mixed" ELSE "calls"
    /\ UNCHANGED cliVars

ListFilteredTasks ==
    /\ pc = "store"
    /\ \E status \in FilterStatuses, priority \in FilterPriorities :
           \E r \in {list_filtered_tasks(tasks, file, status, priority)} :
               Returns(Call("filtered", None, None, priority, status), r)
    /\ history' = "mixed"
    /\ UNCHANGED cliVars

\* save_tasks() called by itself
SaveTasks ==
    /\ pc = "store"
    /\ \E r \in {Saved(tasks, file, "ok")} : Returns(Call("save", None, None, None, None), r)
    /\ history' = "mixed"
    /\ UNCHANGED cliVars

\* load_tasks() called by itself on the live store
LoadTasks ==
    /\ pc = "store"
    /\ \E got \in {load_tasks(tasks, file)} :
           Returns(Call("load", None, None, None, None),
                   Ended(got.val, file, IF got.ok THEN "ok" ELSE got.err, NoneValue))
    /\ history' = "mixed"
    /\ UNCHANGED cliVars

\* A fresh QuestManager constructed on the same file replaces the live one.
FreshStore ==
    /\ pc = "store"
    /\ \E got \in {construct(file)} :
           Returns(Call("construct", None, None, None, None),
                   Ended(got.val, file, IF got.ok THEN "ok" ELSE got.err, NoneValue))
    /\ history' = IF history = "adds" THEN "reopened" ELSE "new"
    /\ UNCHANGED cliVars

Next ==
    \/ AddTask
    \/ ListTasks
    \/ ListTasksByPriority
    \/ CompleteTask
    \/ RemoveTask
    \/ ListFilteredTasks
    \/ SaveTasks
    \/ LoadTasks
    \/ FreshStore

Spec == Init /\ [][Next]_vars

(***************************************************************************)
(* The command surface: main(), one invocation after the other on the same *)
(* file.  pc is "start" before parse_args, "parsed" after it, "opened"     *)
(* after QuestManager() and "exit" when the invocation has ended; outcome  *)
(* tells how: "ok", "usage" (parser.error), or the exception that was not  *)
(* caught.                                                                 *)
(***************************************************************************)
Actions == {"add", "list", "complete", "remove"}

\* The command lines tried: the action missing or unknown, the options absent
\* (None), empty or given, a priority or filter outside the choices.
Argvs ==
    [action : Actions \cup {"", "bogus"},
     name : {None, <<>>, <<32, 32>>, <<97>>},
     description : {None, <<>>, <<100>>},
     priority : {None, alta, Alta},
     filter_status : {None, statusDone, <<120>>},
     filter_priority : {None, alta}]

\* parse_args accepts the command line: the action and every option with
\* choices is one of its choices.
Accepted(argv) ==
    /\ argv.action \in Actions
    /\ argv.priority \in ValidPriorities \cup {None}
    /\ argv.filter_status \in {None, statusPending, statusDone}
    /\ argv.filter_priority \in ValidPriorities \cup {None}

\* The namespace parse_args returns: --priority defaults to "média".
Namespace(argv) ==
    [argv EXCEPT !.priority = IF argv.priority = None THEN media ELSE argv.priority]

InitCLI ==
    /\ file \in InitialFiles \cup UnloadableFiles
    /\ tasks = List(<<>>)
    /\ call = NoCall
    /\ outcome = "ok"
    /\ result = NoneValue
    /\ before = List(<<>>)
    /\ beforeFile = file
    /\ history = "new"
    /\ pc = "start"
    /\ args = NoArgs
    /\ constructed = FALSE
    /\ loaded = FALSE

\* line 141: args = parser.parse_args()
ParseArgs ==
    /\ pc = "start"
    /\ \E argv \in Argvs :
           /\ args' = Namespace(argv)
           /\ pc' = IF Accepted(argv) THEN "parsed" ELSE "exit"
           /\ outcome' = IF Accepted(argv) THEN "ok" ELSE "usage"
    /\ UNCHANGED <<tasks, file, call, result, before, beforeFile, history,
                   constructed, loaded>>

\* line 143: todo = QuestManager()
Construct ==
    /\ pc = "parsed"
    /\ \E got \in {construct(file)} :
           /\ tasks' = got.val
           /\ constructed' = got.ok
           /\ loaded' = file.exists
           /\ pc' = IF got.ok THEN "opened" ELSE "exit"
           /\ outcome' = IF got.ok THEN "ok" ELSE got.err
    /\ call' = Call("construct", None, None, None, None)
    /\ UNCHANGED <<file, result, before, beforeFile, history, args>>

\* parser.error(...) in a branch of main
UsageError ==
    /\ outcome' = "usage"
    /\ UNCHANGED <<tasks, file, call, result, before>>

\* lines 144-148
CmdAdd ==
    /\ pc = "opened"
    /\ args.action = "add"
    /\ IF ~Truthy(args.name) \/ ~Truthy(args.description) THEN UsageError
       ELSE \E r \in {add_task(tasks, file, args.name, args.description, args.priority)} :
                Returns(Call("add", args.name, args.description, args.priority, None), r)
    /\ pc' = "exit"
    /\ UNCHANGED <<beforeFile, history, args, constructed, loaded>>

\* The error printing one task raises (lines 157-161), "" when it prints:
\* task["done"], then task['name'], task['description'], task['priority'].
PrintError(task) ==
    LET failing == {i \in 1..4 :
                       Subscript(task, <<keyDone, keyName, keyDescription, keyPriority>>[i]).err # ""}
        first == CHOOSE i \in failing : \A j \in failing : i <= j
    IN  IF failing = {} THEN ""
        ELSE Subscript(task, <<keyDone, keyName, keyDescription, keyPriority>>[first]).err

RECURSIVE FirstPrintError(_, _)
FirstPrintError(items, i) ==
    IF i > Len(items) THEN ""
    ELSE LET next(failure) == IF failure # "" THEN failure
                              ELSE FirstPrintError(items, i + 1)
         IN  Only({next(v) : v \in {PrintError(items[i])}})

\* lines 152-161 on the value list_filtered_tasks returned
Render(x) ==
    IF ~Truth(x) THEN "ok"
    ELSE IF ~Iterable(x) THEN "TypeError"
    ELSE LET printed(failure) == IF failure # "" THEN failure ELSE "ok"
         IN  Only({printed(v) : v \in {FirstPrintError(Items(x), 1)}})

\* lines 149-161
CmdList ==
    /\ pc = "opened"
    /\ args.action = "list"
    /\ \E r \in {list_filtered_tasks(tasks, file, args.filter_status, args.filter_priority)} :
           Returns(Call("filtered", None, None, args.filter_priority, args.filter_status),
                   IF r.outcome = "ok" THEN [r EXCEPT !.outcome = Render(r.result)] ELSE r)
    /\ pc' = "exit"
    /\ UNCHANGED <<beforeFile, history, args, constructed, loaded>>

\* lines 162-166
CmdComplete ==
    /\ pc = "opened"
    /\ args.action = "complete"
    /\ IF ~Truthy(args.name) THEN UsageError
       ELSE \E r \in {complete_task(tasks, file, args.name)} :
                Returns(Call("complete", args.name, None, None, None), r)
    /\ pc' = "exit"
    /\ UNCHANGED <<beforeFile, history, args, constructed, loaded>>

\* lines 167-171
CmdRemove ==
    /\ pc = "opened"
    /\ args.action = "remove"
    /\ IF ~Truthy(args.name) THEN UsageError
       ELSE \E r \in {remove_task(tasks, file, args.name)} :
                Returns(Call("remove", args.name, None, None, None), r)
    /\ pc' = "exit"
    /\ UNCHANGED <<beforeFile, history, args, constructed, loaded>>

\* The process has ended; the next invocation starts on the file it left.
NextInvocation ==
    /\ pc = "exit"
    /\ pc' = "start"
    /\ tasks' = List(<<>>)
    /\ call' = NoCall
    /\ outcome' = "ok"
    /\ result' = NoneValue
    /\ before' = List(<<>>)
    /\ beforeFile' = file
    /\ args' = NoArgs
    /\ constructed' = FALSE
    /\ loaded' = FALSE
    /\ UNCHANGED <<file, history>>

NextCLI ==
    \/ ParseArgs
    \/ Construct
    \/ CmdAdd
    \/ CmdList
    \/ CmdComplete
    \/ CmdRemove
    \/ NextInvocation

SpecCLI == InitCLI /\ [][NextCLI]_vars

(***************************************************************************)
(* The properties.                                                         *)
(***************************************************************************)

\* C1: after construction and after every add_task, complete_task or
\* remove_task call, whether it returned or raised, in any sequence of such
\* calls, what a load of the file gives (the empty list when there is no
\* file) equals self.tasks, field for field and in the same order.
C1_FileMirrorsMemory ==
    history # "mixed" =>
        \E persisted \in {construct(file)} : persisted.ok /\ persisted.val = tasks

\* C2: no two tasks of the collection have the same name.
C2_UniqueNames ==
    \A i, j \in 1..Len(Items(tasks)) :
        LET one == Subscript(Items(tasks)[i], keyName)
            other == Subscript(Items(tasks)[j], keyName)
        IN  (i # j /\ one.err = "" /\ other.err = "") => one.val # other.val

\* C3: every task of the collection has one of the three valid priorities.
C3_ValidPriority ==
    \A i \in 1..Len(Items(tasks)) :
        LET priority == Subscript(Items(tasks)[i], keyPriority)
        IN  priority.err = "" /\ priority.val.t = "str" /\ priority.val.s \in ValidPriorities

\* C4: an add_task call that raised, for an empty name, a duplicate name, an
\* invalid priority or anything else, left the collection and the file as
\* they were: no failing add_task appends a task or writes the file.
C4_FailedAddChangesNothing ==
    (call.op = "add" /\ outcome # "ok") => (tasks = before /\ file = beforeFile)

\* C5: complete_task on a name no task has raises NotFound and changes no
\* task; on a name that exists it sets done on the task with that name and
\* changes nothing else, the order included.
C5_CompleteFrame ==
    call.op = "complete" =>
        LET named(task) == EqualsStr(Subscript(task, keyName).val, call.name)
            exists == \E i \in 1..Len(Items(before)) : named(Items(before)[i])
        IN  IF ~exists
            THEN outcome = "NotFound" /\ tasks = before
            ELSE /\ outcome = "ok"
                 /\ tasks = List([i \in 1..Len(Items(before)) |->
                                IF named(Items(before)[i])
                                THEN Dict(SetItem(Items(before)[i].items, keyDone, True))
                                ELSE Items(before)[i]])

\* C6: remove_task on a name no task has raises NotFound and keeps the size;
\* on a name that exists the size decreases by exactly one, no task with the
\* name remains and the others keep their order.
C6_RemoveEffect ==
    call.op = "remove" =>
        LET named(task) == EqualsStr(Subscript(task, keyName).val, call.name)
            differs(task) == ~named(task)
            exists == \E i \in 1..Len(Items(before)) : named(Items(before)[i])
        IN  IF ~exists
            THEN outcome = "NotFound" /\ Len(Items(tasks)) = Len(Items(before))
            ELSE /\ outcome = "ok"
                 /\ Len(Items(tasks)) = Len(Items(before)) - 1
                 /\ \A i \in 1..Len(Items(tasks)) : differs(Items(tasks)[i])
                 /\ tasks = List(SelectSeq(Items(before), differs))

\* C7: list_filtered_tasks raises InvalidInput whenever a status is given
\* that is neither pending nor done or a priority is given that is not one
\* of the three; otherwise it returns exactly the tasks that satisfy every
\* given filter, in their order, and the full collection with no filter; it
\* never changes the collection or the file.
C7_FilteredResult ==
    call.op = "filtered" =>
        LET statusGiven == call.status # None
            priorityGiven == call.priority # None
            invalid == \/ statusGiven /\ call.status \notin {statusPending, statusDone}
                       \/ priorityGiven /\ call.priority \notin ValidPriorities
            matches(task) ==
                /\ statusGiven =>
                       (Truth(Subscript(task, keyDone).val) <=> (call.status = statusDone))
                /\ priorityGiven => EqualsStr(Subscript(task, keyPriority).val, call.priority)
        IN  /\ tasks = before
            /\ file = beforeFile
            /\ IF invalid THEN outcome = "InvalidInput"
               ELSE /\ outcome = "ok"
                    /\ Items(result) = SelectSeq(Items(before), matches)
                    /\ (~statusGiven /\ ~priorityGiven) => result = before

\* C8: list_tasks_by_priority returns the tasks of priority alta, then those
\* of priority média, then those of priority baixa, each group in stored
\* order, together a permutation of the collection; the collection and the
\* file stay as they were.
C8_ByPriorityResult ==
    call.op = "by_priority" =>
        LET high(task) == EqualsStr(Subscript(task, keyPriority).val, alta)
            medium(task) == EqualsStr(Subscript(task, keyPriority).val, media)
            low(task) == EqualsStr(Subscript(task, keyPriority).val, baixa)
            expected == SelectSeq(Items(before), high) \o SelectSeq(Items(before), medium)
                            \o SelectSeq(Items(before), low)
        IN  /\ outcome = "ok"
            /\ Items(result) = expected
            /\ Len(Items(result)) = Len(Items(before))
            /\ tasks = before
            /\ file = beforeFile

\* C9: a fresh store constructed on the file after a sequence of successful
\* add_task calls holds the collection the first store held, field for field
\* and in the same order.
C9_RoundTrip ==
    (call.op = "construct" /\ history = "reopened") =>
        (outcome = "ok" /\ tasks = before)

\* C9 witness: a fresh store was constructed after add_task calls that left
\* at least two tasks, the last of them added by the store with a quotation
\* mark in its description.
C9_Witness ==
    /\ call.op = "construct"
    /\ history = "reopened"
    /\ outcome = "ok"
    /\ tasks.t = "list"
    /\ Len(tasks.items) >= 2
    /\ Subscript(tasks.items[Len(tasks.items)], keyName).val.s \in Names
    /\ Subscript(tasks.items[Len(tasks.items)], keyDescription).val.s \in Descriptions
    /\ \E d \in Descriptions : 34 \in {d[i] : i \in 1..Len(d)}
    /\ tasks = before

\* C10: an invocation with action add and no name or no description ends in
\* the usage error with the store neither constructed nor loaded from the
\* file, and the file not written.
C10_UsageBeforeStore ==
    (/\ pc = "exit"
     /\ args.action = "add"
     /\ (args.name = None \/ args.description = None))
    => (outcome = "usage" /\ ~constructed /\ ~loaded /\ file = beforeFile)

====
